---- MODULE Spec2Model ----
(***************************************************************************)
(* nclint: a command-line checker of NetCDF files.                         *)
(*                                                                         *)
(* The module models                                                       *)
(*   - the attribute tables and the registered checks of nclint.py,        *)
(*   - the command-line driver of nclint.py (the __main__ block),          *)
(*   - the fixture builder tests/make-perfect-test-file.py.                *)
(*                                                                         *)
(* A NetCDF file handle is a record                                        *)
(*   attrs       : the global attributes, a function name -> value         *)
(*   variables   : the variables in file order, each a record              *)
(*                   name, dimensions (names), attrs (names),              *)
(*                   data (the layers along the first axis; a layer is    *)
(*                         the sequence of its cells' mask flags)          *)
(*   dimensions  : the dimension names in file order                       *)
(*   always_mask : whether the NetCDF library hands out every array as a   *)
(*                 masked array, or only arrays holding a masked cell      *)
(*   time_var, cmor_filename : how the nchelpers property evaluates        *)
(***************************************************************************)
EXTENDS Integers, Sequences, FiniteSets, TLC

VARIABLES
    args,         \* the parsed command line: files, checks, verbose, list_checks
    pc,           \* position of the driver / of the function under study
    checks,       \* the resolved checks (names of registered functions)
    name_idx,     \* position in args.checks of the name being resolved
    file_idx,     \* position in args.files of the file being processed
    check_idx,    \* position in checks of the check to run next
    nc,           \* the open file handle
    result,       \* the value the last evaluated check returned
    exit_status,  \* the driver's exit_status variable
    exit_code,    \* the status the process ended with (-1 while running)
    stdout,       \* lines printed to standard output
    stderr,       \* lines printed to standard error
    opened,       \* paths handed to the file reader, in order
    evaluated,    \* <<path, check>> pairs evaluated, in order
    applied,      \* the function applied last (function specifications)
    required,     \* the attrs argument of missing_global_attrs
    probed        \* the properties probed by the call of cant_generate_climos
                  \* under way, in order

vars == <<args, pc, checks, name_idx, file_idx, check_idx, nc, result,
          exit_status, exit_code, stdout, stderr, opened, evaluated,
          applied, required, probed>>

----------------------------------------------------------------------------
(* Bounds of the model *)

MaxFiles == 2
MaxChecks == 2
MaxDeleted == 1
MaxRequired == 2
MaxVars == 2

----------------------------------------------------------------------------
(* Sequence helpers *)

RECURSIVE SeqsUpTo(_, _)
SeqsUpTo(S, n) ==
    IF n = 0 THEN {<<>>}
    ELSE LET shorter == SeqsUpTo(S, n - 1)
         IN  shorter \cup {Append(s, x) : s \in {t \in shorter : Len(t) = n - 1}, x \in S}

Range(s) == {s[i] : i \in 1..Len(s)}

RECURSIVE SumLen(_)
SumLen(ss) == IF ss = <<>> THEN 0 ELSE Len(Head(ss)) + SumLen(Tail(ss))

IsPrefix(s, t) == Len(s) <= Len(t) /\ s = SubSeq(t, 1, Len(s))

----------------------------------------------------------------------------
(* Attribute tables of nclint.py *)

\* 'prefix' + attr for attr in attrs
Prefixed(prefix, attrs) == [i \in 1..Len(attrs) |-> prefix \o attrs[i]]

cmip5_global_attrs ==
    << "branch_time", "contact", "Conventions", "creation_date", "experiment",
       "experiment_id", "forcing", "frequency", "initialization_method",
       "institute_id", "institution", "model_id", "modeling_realm",
       "parent_experiment_id", "parent_experiment_rip", "physics_version",
       "product", "project_id", "realization", "source", "table_id",
       "tracking_id" >>

cf_global_attrs ==
    << "title", "institution", "source", "history", "references", "comment" >>

summary_gcm_mandatory_global_attrs_with_frequency ==
    << "experiment", "experiment_id", "initialization_method", "institute_id",
       "institution", "model_id", "physics_version", "realization", "frequency" >>

summary_gcm_mandatory_global_attrs ==
    << "experiment", "experiment_id", "initialization_method", "institute_id",
       "institution", "model_id", "physics_version", "realization" >>

summary_gcm_optional_global_attrs ==
    << "forcing", "frequency", "tracking_id" >>

gridded_dataset_mandatory_global_attrs ==
    << "contact", "dataset", "dataset_id", "institute_id", "institution",
       "references", "version" >>

gridded_dataset_optional_global_attrs ==
    << "frequency" >>

downscaling_specific_mandatory_global_attrs ==
    Prefixed("driving_", summary_gcm_mandatory_global_attrs)
    \o Prefixed("target_", gridded_dataset_mandatory_global_attrs)
    \o << "downscaling_method", "downscaling_method_id", "downscaling_package_id" >>

downscaling_specific_optional_global_attrs ==
    Prefixed("driving_", summary_gcm_optional_global_attrs)
    \o Prefixed("target_", gridded_dataset_optional_global_attrs)

model_forcing_observational_mandatory_global_attrs ==
    Prefixed("forcing_obs_", gridded_dataset_mandatory_global_attrs)

model_forcing_observational_optional_global_attrs ==
    Prefixed("forcing_obs_", gridded_dataset_optional_global_attrs)

model_forcing_downscaled_gcm_mandatory_global_attrs ==
    Prefixed("forcing_", downscaling_specific_mandatory_global_attrs)

model_forcing_downscaled_gcm_optional_global_attrs ==
    Prefixed("forcing_", downscaling_specific_optional_global_attrs)

model_calibration_mandatory_global_attrs ==
    Prefixed("calibration_", gridded_dataset_mandatory_global_attrs)

model_calibration_optional_global_attrs ==
    Prefixed("calibration_", gridded_dataset_optional_global_attrs)

hydromodel_specific_mandatory_global_attrs ==
    << "domain", "hydromodel_method", "hydromodel_method_id", "hydromodel_version",
       "hydromodel_resolution", "hydromodel_type" >>

hydromodel_specific_optional_global_attrs ==
    << "hydromodel_settings" >>

pcic_common_mandatory_global_attrs ==
    << "contact", "Conventions", "creation_date", "frequency", "institute_id",
       "institution", "modeling_realm", "product", "project_id", "table_id",
       "title" >>

downscaling_optional_global_attrs ==
    downscaling_specific_optional_global_attrs \o << "domain", "tracking_id" >>

model_forcing_general_mandatory_attrs == << "forcing_type" >>

model_forcing_general_optional_attrs == << "forcing_domain" >>

----------------------------------------------------------------------------
(* Values a check returns, and Python's truth test on them *)

BoolResult(b) == [kind |-> "bool", flag |-> b, items |-> <<>>]
ListResult(s) == [kind |-> "list", flag |-> FALSE, items |-> s]
TupleResult(name, reason) == [kind |-> "tuple", flag |-> FALSE, items |-> <<name, reason>>]
Raised(error) == [kind |-> "raise", flag |-> FALSE, items |-> <<error>>]
NoResult == [kind |-> "none", flag |-> FALSE, items |-> <<>>]

\* `if result:` - True, a non-empty list, or a (non-empty) tuple
Truthy_bool_only(r) == r.kind = "bool" /\ r.flag

Truthy(r) ==
    CASE r.kind = "bool" -> r.flag
      [] r.kind = "list" -> r.items # <<>>
      [] r.kind = "tuple" -> TRUE
      [] OTHER -> FALSE

----------------------------------------------------------------------------
(* The attribute checks of nclint.py *)

\* hasattr(nc, attr): the presence test; the value is not looked at
hasattr(f, attr) == attr \in DOMAIN f.attrs

missing_global_attrs_truthy(f, attrs) ==
    SelectSeq(attrs, LAMBDA attr : ~(hasattr(f, attr) /\ f.attrs[attr] # ""))

missing_global_attrs(f, attrs) ==
    SelectSeq(attrs, LAMBDA attr : ~hasattr(f, attr))

missing_cmip5_global_attrs(f) == missing_global_attrs(f, cmip5_global_attrs)

missing_cf_global_attrs(f) == missing_global_attrs(f, cf_global_attrs)

missing_pcic_common_mandatory_global_attrs(f) ==
    missing_global_attrs(f, pcic_common_mandatory_global_attrs)

missing_downscaling_specific_mandatory_global_attrs(f) ==
    missing_global_attrs(f, downscaling_specific_mandatory_global_attrs)

missing_downscaling_mandatory_global_attrs_first(f) ==
    IF missing_pcic_common_mandatory_global_attrs(f) # <<>>
    THEN missing_pcic_common_mandatory_global_attrs(f)
    ELSE missing_downscaling_specific_mandatory_global_attrs(f)

missing_downscaling_mandatory_global_attrs(f) ==
    missing_pcic_common_mandatory_global_attrs(f)
    \o missing_downscaling_specific_mandatory_global_attrs(f)

missing_downscaling_optional_global_attrs(f) ==
    missing_global_attrs(f, downscaling_optional_global_attrs)

missing_downscaling_any_global_attrs(f) ==
    missing_downscaling_mandatory_global_attrs(f)
    \o missing_downscaling_optional_global_attrs(f)

missing_model_forcing_general_mandatory_attrs(f) ==
    missing_global_attrs(f, model_forcing_general_mandatory_attrs)

missing_model_forcing_general_optional_attrs(f) ==
    missing_global_attrs(f, model_forcing_general_optional_attrs)

missing_model_forcing_observational_mandatory_attrs(f) ==
    missing_global_attrs(f, model_forcing_observational_mandatory_global_attrs)

missing_model_forcing_observational_optional_attrs(f) ==
    missing_global_attrs(f, model_forcing_observational_optional_global_attrs)

missing_model_forcing_downscaled_gcm_mandatory_attrs(f) ==
    missing_global_attrs(f, model_forcing_downscaled_gcm_mandatory_global_attrs)

missing_model_forcing_downscaled_gcm_optional_attrs(f) ==
    missing_global_attrs(f, model_forcing_downscaled_gcm_optional_global_attrs)

missing_calibration_mandatory_attrs(f) ==
    missing_global_attrs(f, model_calibration_mandatory_global_attrs)

missing_model_calibration_optional_attrs(f) ==
    missing_global_attrs(f, model_calibration_optional_global_attrs)

missing_hydromodel_specific_mandatory_global_attrs(f) ==
    missing_global_attrs(f, hydromodel_specific_mandatory_global_attrs)

missing_hydromodel_specific_optional_global_attrs(f) ==
    missing_global_attrs(f, hydromodel_specific_optional_global_attrs)

missing_hydromodel_obs_mandatory_global_attrs(f) ==
    missing_pcic_common_mandatory_global_attrs(f)
    \o missing_model_forcing_general_mandatory_attrs(f)
    \o missing_model_forcing_observational_mandatory_attrs(f)
    \o missing_calibration_mandatory_attrs(f)
    \o missing_hydromodel_specific_mandatory_global_attrs(f)

missing_hydromodel_gcm_mandatory_global_attrs(f) ==
    missing_pcic_common_mandatory_global_attrs(f)
    \o missing_model_forcing_general_mandatory_attrs(f)
    \o missing_model_forcing_downscaled_gcm_mandatory_attrs(f)
    \o missing_calibration_mandatory_attrs(f)
    \o missing_hydromodel_specific_mandatory_global_attrs(f)

----------------------------------------------------------------------------
(* The structural checks of nclint.py *)

\* isinstance(array, numpy.ma.MaskedArray) for an array read from the file:
\* the library hands out a masked array always, or only when a cell is masked
IsMaskedArray(f, cells) == f.always_mask \/ \E i \in 1..Len(cells) : cells[i]

\* array.mask.all()
MaskAll(cells) == \A i \in 1..Len(cells) : cells[i]

MaskAny(cells) == \E i \in 1..Len(cells) : cells[i]

RECURSIVE Flatten(_)
Flatten(layers) == IF layers = <<>> THEN <<>> ELSE Head(layers) \o Flatten(Tail(layers))

\* the loop of layer_one_missing from the i-th variable on; var_[1,:,:] is the
\* second layer along the first axis and raises IndexError when there is none
RECURSIVE layer_one_missing_from(_, _)
layer_one_missing_from(f, i) ==
    IF i > Len(f.variables) THEN BoolResult(FALSE)
    ELSE LET var_ == f.variables[i]
         IN  IF Len(var_.dimensions) < 3 THEN layer_one_missing_from(f, i + 1)
             ELSE IF Len(var_.data) < 2 THEN Raised("IndexError")
             ELSE LET one_layer == var_.data[2]
                  IN  IF IsMaskedArray(f, one_layer) /\ MaskAll(one_layer)
                      THEN BoolResult(TRUE)
                      ELSE layer_one_missing_from(f, i + 1)

layer_one_missing_any_masked(f) ==
    IF \E i \in 1..Len(f.variables) :
          /\ Len(f.variables[i].dimensions) >= 3
          /\ Len(f.variables[i].data) >= 2
          /\ MaskAny(f.variables[i].data[2])
    THEN BoolResult(TRUE)
    ELSE layer_one_missing_from(f, 1)

layer_one_missing(f) == layer_one_missing_from(f, 1)

HasVariable(f, name) == \E i \in 1..Len(f.variables) : f.variables[i].name = name

\* nc.variables[name]
Variable(f, name) ==
    f.variables[CHOOSE i \in 1..Len(f.variables) : f.variables[i].name = name]

vars_missing_units(f) ==
    BoolResult(\E i \in 1..Len(f.variables) : "units" \notin f.variables[i].attrs)

missing_time_units(f) ==
    IF HasVariable(f, "time")
    THEN BoolResult("units" \notin Variable(f, "time").attrs)
    ELSE BoolResult(TRUE)

\* getattr(nc, name) of the two probed nchelpers properties
Property(f, name) == IF name = "time_var" THEN f.time_var ELSE f.cmor_filename

climo_properties_reversed == << "cmor_filename", "time_var" >>

climo_properties == << "time_var", "cmor_filename" >>

\* one turn of the loop: the value returned from within it, or NoResult when
\* the loop goes on
probe(f, name) ==
    LET test == Property(f, name)
    IN  IF test.raises THEN TupleResult(name, test.value)
        ELSE IF test.value = "" THEN TupleResult(name, "Falsy value: " \o test.value)
        ELSE NoResult

RECURSIVE cant_generate_climos_from(_, _)
cant_generate_climos_from(f, i) ==
    IF i > Len(climo_properties) THEN BoolResult(FALSE)
    ELSE LET returned == probe(f, climo_properties[i])
         IN  IF returned # NoResult THEN returned
             ELSE cant_generate_climos_from(f, i + 1)

cant_generate_climos(f) == cant_generate_climos_from(f, 1)

\* nc.variables[dim] raises KeyError for a dimension without a variable of its
\* name; the comprehension then yields no list
has_masked_dimensions(f) ==
    IF \E i \in 1..Len(f.dimensions) : ~HasVariable(f, f.dimensions[i])
    THEN Raised("KeyError")
    ELSE ListResult(SelectSeq(f.dimensions,
                LAMBDA dim : IsMaskedArray(f, Flatten(Variable(f, dim).data))))

----------------------------------------------------------------------------
(* The check registry: is_a_check appends each decorated function's name *)

check_list ==
    << "layer_one_missing",
       "vars_missing_units",
       "missing_time_units",
       "missing_cmip5_global_attrs",
       "missing_cf_global_attrs",
       "missing_pcic_common_mandatory_global_attrs",
       "missing_downscaling_specific_mandatory_global_attrs",
       "missing_downscaling_mandatory_global_attrs",
       "missing_downscaling_optional_global_attrs",
       "missing_downscaling_any_global_attrs",
       "missing_model_forcing_general_mandatory_attrs",
       "missing_model_forcing_general_optional_attrs",
       "missing_model_forcing_observational_mandatory_attrs",
       "missing_model_forcing_observational_optional_attrs",
       "missing_model_forcing_downscaled_gcm_mandatory_attrs",
       "missing_model_forcing_downscaled_gcm_optional_attrs",
       "missing_calibration_mandatory_attrs",
       "missing_model_calibration_optional_attrs",
       "missing_hydromodel_specific_mandatory_global_attrs",
       "missing_hydromodel_specific_optional_global_attrs",
       "missing_hydromodel_obs_mandatory_global_attrs",
       "missing_hydromodel_gcm_mandatory_global_attrs",
       "cant_generate_climos",
       "has_masked_dimensions" >>

\* the registered checks that return a list of missing global attributes
AttrCheck(name, f) ==
    CASE name = "missing_cmip5_global_attrs" -> missing_cmip5_global_attrs(f)
      [] name = "missing_cf_global_attrs" -> missing_cf_global_attrs(f)
      [] name = "missing_pcic_common_mandatory_global_attrs" ->
            missing_pcic_common_mandatory_global_attrs(f)
      [] name = "missing_downscaling_specific_mandatory_global_attrs" ->
            missing_downscaling_specific_mandatory_global_attrs(f)
      [] name = "missing_downscaling_mandatory_global_attrs" ->
            missing_downscaling_mandatory_global_attrs(f)
      [] name = "missing_downscaling_optional_global_attrs" ->
            missing_downscaling_optional_global_attrs(f)
      [] name = "missing_downscaling_any_global_attrs" ->
            missing_downscaling_any_global_attrs(f)
      [] name = "missing_model_forcing_general_mandatory_attrs" ->
            missing_model_forcing_general_mandatory_attrs(f)
      [] name = "missing_model_forcing_general_optional_attrs" ->
            missing_model_forcing_general_optional_attrs(f)
      [] name = "missing_model_forcing_observational_mandatory_attrs" ->
            missing_model_forcing_observational_mandatory_attrs(f)
      [] name = "missing_model_forcing_observational_optional_attrs" ->
            missing_model_forcing_observational_optional_attrs(f)
      [] name = "missing_model_forcing_downscaled_gcm_mandatory_attrs" ->
            missing_model_forcing_downscaled_gcm_mandatory_attrs(f)
      [] name = "missing_model_forcing_downscaled_gcm_optional_attrs" ->
            missing_model_forcing_downscaled_gcm_optional_attrs(f)
      [] name = "missing_calibration_mandatory_attrs" ->
            missing_calibration_mandatory_attrs(f)
      [] name = "missing_model_calibration_optional_attrs" ->
            missing_model_calibration_optional_attrs(f)
      [] name = "missing_hydromodel_specific_mandatory_global_attrs" ->
            missing_hydromodel_specific_mandatory_global_attrs(f)
      [] name = "missing_hydromodel_specific_optional_global_attrs" ->
            missing_hydromodel_specific_optional_global_attrs(f)
      [] name = "missing_hydromodel_obs_mandatory_global_attrs" ->
            missing_hydromodel_obs_mandatory_global_attrs(f)
      [] name = "missing_hydromodel_gcm_mandatory_global_attrs" ->
            missing_hydromodel_gcm_mandatory_global_attrs(f)

AttrCheckNames == SubSeq(check_list, 4, 22)

\* globals()[name](nc): the value the registered check returns, or the
\* error it raises; a name that is not registered is never called by the
\* driver, and a function of the module called with nc alone raises TypeError
Check(name, f) ==
    CASE name = "layer_one_missing" -> layer_one_missing(f)
      [] name = "vars_missing_units" -> vars_missing_units(f)
      [] name = "missing_time_units" -> missing_time_units(f)
      [] name = "cant_generate_climos" -> cant_generate_climos(f)
      [] name = "has_masked_dimensions" -> has_masked_dimensions(f)
      [] name \in Range(AttrCheckNames) -> ListResult(AttrCheck(name, f))
      [] OTHER -> Raised("TypeError")

----------------------------------------------------------------------------
(* tests/make-perfect-test-file.py: the hand-written attribute lists *)

fixture_pcic_common_mandatory_global_attrs ==
    << "contact", "Conventions", "creation_date", "frequency", "institute_id",
       "institution", "modeling_realm", "product", "project_id", "table_id",
       "title" >>

fixture_downscaling_specific_mandatory_global_attrs ==
    << "downscaling_method", "downscaling_method_id", "downscaling_package_id",
       "driving_experiment", "driving_experiment_id",
       "driving_initialization_method", "driving_institute_id",
       "driving_institution", "driving_model_id", "driving_physics_version",
       "driving_realization", "driving_tracking_id", "target_contact",
       "target_dataset", "target_dataset_id", "target_institute_id",
       "target_institution", "target_references", "target_version" >>

fixture_model_forcing_general_mandatory_attrs == << "forcing_type" >>

fixture_model_forcing_observational_mandatory_global_attrs ==
    << "forcing_obs_contact", "forcing_obs_dataset", "forcing_obs_dataset_id",
       "forcing_obs_institute_id", "forcing_obs_institution",
       "forcing_obs_references", "forcing_obs_version" >>

fixture_model_forcing_downscaled_gcm_mandatory_global_attrs ==
    << "forcing_downscaling_method", "forcing_downscaling_method_id",
       "forcing_downscaling_package_id", "forcing_driving_experiment",
       "forcing_driving_experiment_id", "forcing_driving_initialization_method",
       "forcing_driving_institute_id", "forcing_driving_institution",
       "forcing_driving_model_id", "forcing_driving_physics_version",
       "forcing_driving_realization", "forcing_driving_tracking_id",
       "forcing_target_contact", "forcing_target_dataset",
       "forcing_target_dataset_id", "forcing_target_institute_id",
       "forcing_target_institution", "forcing_target_references",
       "forcing_target_version" >>

fixture_calibration_mandatory_global_attrs ==
    << "calibration_contact", "calibration_dataset", "calibration_dataset_id",
       "calibration_institute_id", "calibration_institution",
       "calibration_references", "calibration_version" >>

fixture_hydromodel_specific_mandatory_global_attrs ==
    << "domain", "hydromodel_method", "hydromodel_method_id", "hydromodel_version",
       "hydromodel_resolution", "hydromodel_type" >>

filetypes == << "downscaled", "hydromodel_gcm", "hydromodel_obs" >>

attrs_by_filetype(type) ==
    CASE type = "downscaled" ->
            fixture_pcic_common_mandatory_global_attrs
            \o fixture_downscaling_specific_mandatory_global_attrs
      [] type = "hydromodel_gcm" ->
            fixture_pcic_common_mandatory_global_attrs
            \o fixture_model_forcing_general_mandatory_attrs
            \o fixture_model_forcing_downscaled_gcm_mandatory_global_attrs
            \o fixture_calibration_mandatory_global_attrs
            \o fixture_hydromodel_specific_mandatory_global_attrs
      [] type = "hydromodel_obs" ->
            fixture_pcic_common_mandatory_global_attrs
            \o fixture_model_forcing_general_mandatory_attrs
            \o fixture_model_forcing_observational_mandatory_global_attrs
            \o fixture_calibration_mandatory_global_attrs
            \o fixture_hydromodel_specific_mandatory_global_attrs

\* netCDF4.Dataset(file, mode='w'): a new file, without attributes, variables
\* or dimensions; read back, it has no time variable for nchelpers to resolve
NewDataset ==
    [ attrs |-> [a \in {} |-> ""],
      variables |-> <<>>,
      dimensions |-> <<>>,
      always_mask |-> TRUE,
      time_var |-> [raises |-> TRUE, value |-> "no time variable"],
      cmor_filename |-> [raises |-> TRUE, value |-> "no time variable"] ]

\* setattr(nc, attr, value) for attr in attrs
assign_attrs(f, attrs, value) ==
    [f EXCEPT !.attrs =
        [a \in DOMAIN f.attrs \cup Range(attrs) |->
            IF a \in Range(attrs) THEN value ELSE f.attrs[a]]]

\* the file the script writes for --type type
make_perfect_test_file(type) == assign_attrs(NewDataset, attrs_by_filetype(type), "value")

\* the mandatory composite check that goes with a fixture file type
mandatory_check(type) ==
    CASE type = "downscaled" -> "missing_downscaling_mandatory_global_attrs"
      [] type = "hydromodel_gcm" -> "missing_hydromodel_gcm_mandatory_global_attrs"
      [] type = "hydromodel_obs" -> "missing_hydromodel_obs_mandatory_global_attrs"

----------------------------------------------------------------------------
(* The command-line driver of nclint.py *)

\* The files the driver can be pointed at.  absent.nc cannot be opened.
Paths == {"perfect.nc", "masked.nc", "short.nc", "absent.nc"}

Readable(path) == path # "absent.nc"

GridVariable(name, data) ==
    [ name |-> name, dimensions |-> << "time", "lat", "lon" >>,
      attrs |-> {"units"}, data |-> data ]

\* perfect.nc: the hydromodel_gcm fixture file
\* masked.nc : one grid variable whose layer at index 1 is masked throughout
\* short.nc  : one grid variable with a single time step
FileContent(path) ==
    CASE path = "perfect.nc" -> make_perfect_test_file("hydromodel_gcm")
      [] path = "masked.nc" ->
            [NewDataset EXCEPT
                !.variables = << GridVariable("tasmax", << <<FALSE, FALSE>>, <<TRUE, TRUE>> >>) >>,
                !.dimensions = << "time", "lat", "lon" >>]
      [] path = "short.nc" ->
            [NewDataset EXCEPT
                !.variables = << GridVariable("tasmax", << <<FALSE, FALSE>> >>) >>,
                !.dimensions = << "time", "lat", "lon" >>]
      [] OTHER -> NewDataset

\* the names the --checks option is given: registered checks, a function of
\* the module that is not registered, and a name that is no function at all
CliCheckNames ==
    {"layer_one_missing", "missing_hydromodel_gcm_mandatory_global_attrs",
     "missing_time_units", "missing_global_attrs", "no_such_check"}

\* argparse's result; args.checks is the option already split at the commas,
\* which yields at least one name
Args ==
    [ files : SeqsUpTo(Paths, MaxFiles),
      checks : SeqsUpTo(CliCheckNames, MaxChecks) \ {<<>>},
      verbose : BOOLEAN,
      list_checks : BOOLEAN ]

NoArgs == [files |-> <<>>, checks |-> <<>>, verbose |-> FALSE, list_checks |-> FALSE]

\* `check not in check_list`, negated
IsGlobal(check) == check \in Range(check_list) \cup {"missing_global_attrs"}

IsRegistered(check) == check \in Range(check_list)

\* non-verbose mode breaks out of the check loop at the first failure
StopsNever(verbose) == FALSE

StopsAlways(verbose) == TRUE

StopsAtFailure(verbose) == ~verbose

\* the line printed for a failed check
FailureLine(verbose, file_, check, r) ==
    IF verbose THEN << file_, "FAILED", check, r >> ELSE << file_ >>

\* an uncaught exception: traceback on standard error, exit status 1
Crash(error) ==
    /\ pc' = "crashed"
    /\ stderr' = Append(stderr, << "Traceback", error >>)
    /\ exit_code' = 1

InitMain ==
    /\ args \in Args
    /\ pc = "start"
    /\ checks = <<>>
    /\ name_idx = 1
    /\ file_idx = 0
    /\ check_idx = 0
    /\ nc = NewDataset
    /\ result = NoResult
    /\ exit_status = -1
    /\ exit_code = -1
    /\ stdout = <<>>
    /\ stderr = <<>>
    /\ opened = <<>>
    /\ evaluated = <<>>
    /\ applied = "none"
    /\ required = <<>>
    /\ probed = <<>>

\* --list_checks: print the registry and exit 0
ListChecks ==
    /\ pc = "start"
    /\ args.list_checks
    /\ stdout' = IF args.verbose
                 THEN [i \in 1..Len(check_list) |-> << check_list[i], "__doc__" >>]
                 ELSE << << "Available checks:", check_list >> >>
    /\ exit_code' = 0
    /\ pc' = "done"
    /\ UNCHANGED <<args, checks, name_idx, file_idx, check_idx, nc, result,
                   exit_status, stderr, opened, evaluated, applied, required, probed>>

\* one turn of the loop over args.checks.split(',')
ResolveCheck ==
    /\ pc = "start"
    /\ ~args.list_checks
    /\ name_idx <= Len(args.checks)
    /\ LET check == args.checks[name_idx]
       IN  IF ~IsRegistered(check)
           THEN /\ stderr' = Append(stderr, << "NetCDF check does not exist", check >>)
                /\ exit_code' = 1
                /\ pc' = "done"
                /\ UNCHANGED <<checks, name_idx>>
           ELSE /\ checks' = Append(checks, check)
                /\ name_idx' = name_idx + 1
                /\ UNCHANGED <<stderr, exit_code, pc>>
    /\ UNCHANGED <<args, file_idx, check_idx, nc, result, exit_status, stdout,
                   opened, evaluated, applied, required, probed>>

\* exit_status = 0, and into the loop over args.files
StartFiles ==
    /\ pc = "start"
    /\ ~args.list_checks
    /\ name_idx > Len(args.checks)
    /\ exit_status' = 0
    /\ file_idx' = 1
    /\ pc' = "files"
    /\ UNCHANGED <<args, checks, name_idx, check_idx, nc, result, exit_code,
                   stdout, stderr, opened, evaluated, applied, required, probed>>

\* nc = nchelpers.CFDataset(file_, 'r'); a failure to open is not caught
OpenFile ==
    /\ pc = "files"
    /\ file_idx <= Len(args.files)
    /\ LET file_ == args.files[file_idx]
       IN  /\ opened' = Append(opened, file_)
           /\ IF Readable(file_)
              THEN /\ nc' = FileContent(file_)
                   /\ check_idx' = 1
                   /\ pc' = "checks"
                   /\ UNCHANGED <<stderr, exit_code>>
              ELSE /\ Crash("FileOpenError")
                   /\ UNCHANGED <<nc, check_idx>>
    /\ UNCHANGED <<args, checks, name_idx, file_idx, result, exit_status, stdout,
                   evaluated, applied, required, probed>>

\* one turn of the loop over checks, for the open file
RunCheck ==
    /\ pc = "checks"
    /\ check_idx <= Len(checks)
    /\ LET file_ == args.files[file_idx]
           check == checks[check_idx]
           r == Check(check, nc)
           leave == /\ pc' = "files"
                    /\ file_idx' = file_idx + 1
                    /\ UNCHANGED check_idx
           continue == IF check_idx = Len(checks)
                       THEN leave
                       ELSE /\ check_idx' = check_idx + 1
                            /\ UNCHANGED <<pc, file_idx>>
       IN  /\ evaluated' = Append(evaluated, << file_, check >>)
           /\ result' = r
           /\ IF r.kind = "raise"
              THEN /\ Crash(r.items[1])
                   /\ UNCHANGED <<file_idx, check_idx, exit_status, stdout>>
              ELSE /\ UNCHANGED <<stderr, exit_code>>
                   /\ IF Truthy(r)
                      THEN /\ exit_status' = 1
                           /\ stdout' = Append(stdout, FailureLine(args.verbose, file_, check, r))
                           /\ IF StopsAtFailure(args.verbose) THEN leave ELSE continue
                      ELSE /\ UNCHANGED <<exit_status, stdout>>
                           /\ continue
    /\ UNCHANGED <<args, checks, name_idx, nc, opened, applied, required, probed>>

\* sys.exit(exit_status)
Exit ==
    /\ pc = "files"
    /\ file_idx > Len(args.files)
    /\ exit_code' = exit_status
    /\ pc' = "done"
    /\ UNCHANGED <<args, checks, name_idx, file_idx, check_idx, nc, result,
                   exit_status, stdout, stderr, opened, evaluated, applied, required, probed>>

Next == ListChecks \/ ResolveCheck \/ StartFiles \/ OpenFile \/ RunCheck \/ Exit

Spec == InitMain /\ [][Next]_vars

----------------------------------------------------------------------------
(* What the driver is expected to do, stated over whole runs *)

Terminated == pc \in {"done", "crashed"}

\* the run went through the loop over the files to sys.exit(exit_status)
ReachedEnd == pc = "done" /\ ~args.list_checks /\ file_idx > Len(args.files)

\* a check's verdict on a file, read off the returned value
Fails(r) == r = BoolResult(TRUE) \/ (r.kind = "list" /\ Len(r.items) > 0) \/ r.kind = "tuple"

Passes(r) == r = BoolResult(FALSE) \/ r = ListResult(<<>>)

Verdict(path, check) == Check(check, FileContent(path))

HasUnknownName == \E j \in 1..Len(args.checks) : args.checks[j] \notin Range(check_list)

UnknownReport(name) == << "NetCDF check does not exist", name >>

\* the checks evaluated on one readable file, from the j-th on: in order, up
\* to an error, or up to the first failure when failures stop the file
RECURSIVE FileTrace(_, _, _, _)
FileTrace(path, cs, j, stop) ==
    IF j > Len(cs) THEN <<>>
    ELSE LET r == Verdict(path, cs[j])
         IN  << cs[j] >> \o
             (IF r.kind = "raise" \/ (Fails(r) /\ stop) THEN <<>>
              ELSE FileTrace(path, cs, j + 1, stop))

FileRaises(path, cs, stop) ==
    LET t == FileTrace(path, cs, 1, stop)
    IN  t # <<>> /\ Verdict(path, t[Len(t)]).kind = "raise"

\* the <<file, check>> pairs a run evaluates, from the i-th file on; a file
\* that cannot be opened, or a check that raises, ends the run
RECURSIVE RunTrace(_, _, _, _)
RunTrace(files, cs, i, stop) ==
    IF i > Len(files) \/ ~Readable(files[i]) THEN <<>>
    ELSE LET t == FileTrace(files[i], cs, 1, stop)
         IN  [k \in 1..Len(t) |-> << files[i], t[k] >>] \o
             (IF FileRaises(files[i], cs, stop) THEN <<>>
              ELSE RunTrace(files, cs, i + 1, stop))

\* every <<file, check>> pair, file by file, check by check
AllPairs(files, cs) ==
    [k \in 1..(Len(files) * Len(cs)) |->
        << files[((k - 1) \div Len(cs)) + 1], cs[((k - 1) % Len(cs)) + 1] >>]

FailedPairs(pairs) == SelectSeq(pairs, LAMBDA e : Fails(Verdict(e[1], e[2])))

----------------------------------------------------------------------------
(* C1 - exit status *)

\* C1: a run that reaches the end of the loop over the files exits with
\* status 0 exactly when every file passed every requested check, and with
\* status 1 when some file failed some check; exit_status, once 1, stays 1.
C1_ExitStatusAtEnd ==
    ReachedEnd =>
        /\ exit_code \in {0, 1}
        /\ exit_code = 0 <=>
              \A i \in 1..Len(args.files), j \in 1..Len(args.checks) :
                  Passes(Verdict(args.files[i], args.checks[j]))
        /\ (\E i \in 1..Len(args.files), j \in 1..Len(args.checks) :
                  Fails(Verdict(args.files[i], args.checks[j]))) => exit_code = 1

C1_ExitStatus ==
    /\ []C1_ExitStatusAtEnd
    /\ [][exit_status = 1 => exit_status' = 1]_vars

\* a run over two files ends with status 1: the first file failed a check,
\* the second passed every check
C1_Witness ==
    /\ ReachedEnd
    /\ Len(args.files) = 2
    /\ exit_code = 1
    /\ \E j \in 1..Len(args.checks) : Fails(Verdict(args.files[1], args.checks[j]))
    /\ \A j \in 1..Len(args.checks) : Passes(Verdict(args.files[2], args.checks[j]))

----------------------------------------------------------------------------
(* C2 - unknown check names *)

\* C2 as claimed: whenever --checks holds a name that is not registered, the
\* run reports such a name and exits with status 1, no file is opened and no
\* check is evaluated; the names accepted are exactly the registered ones.
C2_UnknownCheckAborts ==
    /\ Range(checks) \subseteq Range(check_list)
    /\ HasUnknownName =>
          /\ opened = <<>>
          /\ evaluated = <<>>
          /\ Terminated =>
                /\ exit_code = 1
                /\ \E j \in 1..Len(args.checks) :
                      /\ args.checks[j] \notin Range(check_list)
                      /\ stderr = << UnknownReport(args.checks[j]) >>

\* C2 (amended): without --list_checks, a name that is not registered is
\* reported, the run exits with status 1, no file is opened and no check is
\* evaluated; with --list_checks the names are not looked at and the run
\* exits with status 0, again without opening a file.  The names accepted
\* are exactly the registered ones, in the order given.
C2_UnknownCheckAbortsUnlessListing ==
    /\ Range(checks) \subseteq Range(check_list)
    /\ IsPrefix(checks, args.checks)
    /\ pc \in {"files", "checks"} => checks = args.checks
    /\ (~HasUnknownName /\ ~args.list_checks /\ Terminated) => checks = args.checks
    /\ HasUnknownName =>
          /\ opened = <<>>
          /\ evaluated = <<>>
          /\ (Terminated /\ ~args.list_checks) =>
                /\ pc = "done"
                /\ exit_code = 1
                /\ stdout = <<>>
                /\ \E j \in 1..Len(args.checks) :
                      /\ args.checks[j] \notin Range(check_list)
                      /\ \A k \in 1..(j - 1) : args.checks[k] \in Range(check_list)
                      /\ stderr = << UnknownReport(args.checks[j]) >>
          /\ (Terminated /\ args.list_checks) =>
                /\ exit_code = 0
                /\ stderr = <<>>

\* a name that is not registered follows a registered one; files were given,
\* and the run has ended
C2_Witness ==
    /\ pc = "done"
    /\ ~args.list_checks
    /\ Len(args.checks) = 2
    /\ args.checks[1] \in Range(check_list)
    /\ args.checks[2] = "missing_global_attrs"
    /\ Len(args.files) > 0
    /\ exit_code = 1
    /\ stderr = << UnknownReport("missing_global_attrs") >>

----------------------------------------------------------------------------
(* C3 - a file that cannot be opened *)

\* C3: when a file cannot be opened, the run still ends through sys.exit, and
\* every file after it has been opened and, if readable, checked.
C3_BatchContinues ==
    (Terminated /\ \E i \in 1..Len(opened) : ~Readable(opened[i])) =>
        /\ pc = "done"
        /\ opened = args.files
        /\ \A i \in 1..Len(args.files) :
              Readable(args.files[i]) =>
                  \E k \in 1..Len(evaluated) : evaluated[k][1] = args.files[i]

----------------------------------------------------------------------------
(* C4 - terse mode *)

\* C4: in terse mode the checks are evaluated file by file in the order of
\* the command line, on each file up to and including the first check that
\* fails; a file on which a check failed gets one line, its bare path, and a
\* file on which no check failed gets none; after a file the run goes on with
\* the next.
C4_TerseStopsAtFirstFailure ==
    (~args.verbose /\ ~args.list_checks) =>
        /\ LET trace == RunTrace(args.files, args.checks, 1, TRUE)
           IN  /\ IsPrefix(evaluated, trace)
               /\ ReachedEnd => evaluated = trace
        /\ LET failed == FailedPairs(evaluated)
           IN  stdout = [k \in 1..Len(failed) |-> << failed[k][1] >>]
        /\ \A k \in 1..(Len(evaluated) - 1) :
              Fails(Verdict(evaluated[k][1], evaluated[k][2])) =>
                  evaluated[k + 1][2] = args.checks[1]

\* a terse run over two files and two checks: the first file fails the first
\* check, the second check is skipped on it, and the second file is checked
C4_Witness ==
    /\ ReachedEnd
    /\ ~args.verbose
    /\ Len(args.files) = 2
    /\ Len(args.checks) = 2
    /\ Fails(Verdict(args.files[1], args.checks[1]))
    /\ Fails(Verdict(args.files[1], args.checks[2]))
    /\ Len(evaluated) = 3
    /\ stdout = << << args.files[1] >> >>

----------------------------------------------------------------------------
(* C5 - verbose mode *)

\* C5: in verbose mode no check is skipped: the pairs evaluated are the pairs
\* of the command line, file by file and check by check, whatever failed
\* before; the lines printed are '<file> FAILED <check>: <detail>', one for each
\* evaluated pair whose check failed, in that order, and none for a pair that
\* passed.
C5_VerboseRunsAll ==
    (args.verbose /\ ~args.list_checks) =>
        /\ IsPrefix(evaluated, AllPairs(args.files, args.checks))
        /\ ReachedEnd => evaluated = AllPairs(args.files, args.checks)
        /\ pc = "files" => Len(evaluated) = (file_idx - 1) * Len(args.checks)
        /\ LET failed == FailedPairs(evaluated)
           IN  stdout = [k \in 1..Len(failed) |->
                            << failed[k][1], "FAILED", failed[k][2],
                               Verdict(failed[k][1], failed[k][2]) >>]

\* a verbose run in which one file failed two checks and got two lines
C5_Witness ==
    /\ ReachedEnd
    /\ args.verbose
    /\ Len(args.checks) = 2
    /\ Len(stdout) >= 2
    /\ stdout[1][1] = args.files[1]
    /\ stdout[2][1] = args.files[1]
    /\ stdout[1][3] = args.checks[1]
    /\ stdout[2][3] = args.checks[2]

----------------------------------------------------------------------------
(* The checks as functions of a file: a file is chosen, checks are applied *)

AtRest ==
    /\ args = NoArgs
    /\ pc = "function"
    /\ checks = <<>>
    /\ name_idx = 0
    /\ file_idx = 0
    /\ check_idx = 0
    /\ exit_status = -1
    /\ exit_code = -1
    /\ stdout = <<>>
    /\ stderr = <<>>
    /\ opened = <<>>
    /\ evaluated = <<>>
    /\ result = NoResult
    /\ applied = "none"
    /\ required = <<>>
    /\ probed = <<>>

driver_vars == <<args, pc, checks, name_idx, file_idx, check_idx, exit_status,
                 exit_code, stdout, stderr, opened, evaluated>>

\* the indices of attrs whose name is no key of the file's global attributes
MissingIndices(f, attrs) == {i \in 1..Len(attrs) : attrs[i] \notin DOMAIN f.attrs}

\* the names at those indices, in the order of attrs
ExpectedMissing(f, attrs) ==
    LET I == MissingIndices(f, attrs)
    IN  [k \in 1..Cardinality(I) |->
            attrs[CHOOSE i \in I : Cardinality({j \in I : j <= i}) = k]]

RECURSIVE SubsetsUpTo(_, _)
SubsetsUpTo(S, n) ==
    IF n = 0 THEN {{}}
    ELSE LET smaller == SubsetsUpTo(S, n - 1)
         IN  smaller \cup {D \cup {a} : D \in smaller, a \in S}

----------------------------------------------------------------------------
(* missing_global_attrs on files with present, empty-valued and absent
   attributes *)

PresenceNames == {"title", "institution", "history"}

AttrValues == {"value", ""}

PresenceFiles ==
    {[NewDataset EXCEPT !.attrs = a] :
        a \in UNION {[S -> AttrValues] : S \in SUBSET PresenceNames}}

InitPresence == AtRest /\ nc \in PresenceFiles

ApplyMissingGlobalAttrs ==
    \E attrs \in SeqsUpTo(PresenceNames, MaxRequired) :
        /\ required' = attrs
        /\ applied' = "missing_global_attrs"
        /\ result' = ListResult(missing_global_attrs(nc, attrs))
        /\ UNCHANGED <<nc, probed>>
        /\ UNCHANGED driver_vars

SpecPresence == InitPresence /\ [][ApplyMissingGlobalAttrs]_vars

\* C6: missing_global_attrs returns the required names that are no key of
\* the global attributes, in the order of the required list (none for an empty
\* list); an attribute present with an empty value is not returned; the file
\* is not changed.
C6_ReturnsAbsentNames ==
    applied = "missing_global_attrs" =>
        /\ result = ListResult(ExpectedMissing(nc, required))
        /\ \A i \in 1..Len(required) :
              (required[i] \in DOMAIN nc.attrs) => required[i] \notin Range(result.items)
        /\ required = <<>> => result.items = <<>>

----------------------------------------------------------------------------
(* The composite attribute checks on fixture files, whole or with some of
   their attributes taken out *)

\* the file without the attributes named in D
without_attrs(f, D) ==
    [f EXCEPT !.attrs = [a \in (DOMAIN f.attrs) \ D |-> f.attrs[a]]]

FixtureFiles ==
    {NewDataset} \cup
    UNION {{without_attrs(make_perfect_test_file(type), D) :
                D \in SubsetsUpTo(Range(attrs_by_filetype(type)), MaxDeleted)} :
           type \in Range(filetypes)}

AccumulatingChecks ==
    {"missing_downscaling_mandatory_global_attrs",
     "missing_downscaling_any_global_attrs",
     "missing_hydromodel_obs_mandatory_global_attrs",
     "missing_hydromodel_gcm_mandatory_global_attrs"}

InitFixture == AtRest /\ nc \in FixtureFiles

ApplyCheck ==
    \E name \in AccumulatingChecks \cup {"layer_one_missing"} :
        /\ applied' = name
        /\ result' = Check(name, nc)
        /\ UNCHANGED <<nc, required, probed>>
        /\ UNCHANGED driver_vars

SpecFixture == InitFixture /\ [][ApplyCheck]_vars

\* the component checks of an accumulating composite check, as declared
Components(name) ==
    CASE name = "missing_downscaling_mandatory_global_attrs" ->
            << "missing_pcic_common_mandatory_global_attrs",
               "missing_downscaling_specific_mandatory_global_attrs" >>
      [] name = "missing_downscaling_any_global_attrs" ->
            << "missing_downscaling_mandatory_global_attrs",
               "missing_downscaling_optional_global_attrs" >>
      [] name = "missing_hydromodel_obs_mandatory_global_attrs" ->
            << "missing_pcic_common_mandatory_global_attrs",
               "missing_model_forcing_general_mandatory_attrs",
               "missing_model_forcing_observational_mandatory_attrs",
               "missing_calibration_mandatory_attrs",
               "missing_hydromodel_specific_mandatory_global_attrs" >>
      [] name = "missing_hydromodel_gcm_mandatory_global_attrs" ->
            << "missing_pcic_common_mandatory_global_attrs",
               "missing_model_forcing_general_mandatory_attrs",
               "missing_model_forcing_downscaled_gcm_mandatory_attrs",
               "missing_calibration_mandatory_attrs",
               "missing_hydromodel_specific_mandatory_global_attrs" >>

\* the attribute names a composite check asks for, table after table
RequiredBy(name) ==
    CASE name = "missing_downscaling_mandatory_global_attrs" ->
            pcic_common_mandatory_global_attrs
            \o downscaling_specific_mandatory_global_attrs
      [] name = "missing_downscaling_any_global_attrs" ->
            pcic_common_mandatory_global_attrs
            \o downscaling_specific_mandatory_global_attrs
            \o downscaling_optional_global_attrs
      [] name = "missing_hydromodel_obs_mandatory_global_attrs" ->
            pcic_common_mandatory_global_attrs
            \o model_forcing_general_mandatory_attrs
            \o model_forcing_observational_mandatory_global_attrs
            \o model_calibration_mandatory_global_attrs
            \o hydromodel_specific_mandatory_global_attrs
      [] name = "missing_hydromodel_gcm_mandatory_global_attrs" ->
            pcic_common_mandatory_global_attrs
            \o model_forcing_general_mandatory_attrs
            \o model_forcing_downscaled_gcm_mandatory_global_attrs
            \o model_calibration_mandatory_global_attrs
            \o hydromodel_specific_mandatory_global_attrs

ComponentResults(name, f) ==
    [i \in 1..Len(Components(name)) |-> AttrCheck(Components(name)[i], f)]

\* C7: the result of an accumulating composite check is the concatenation of
\* its components' results in declaration order, each component contributing
\* whatever the others report: its length is the sum of theirs, not less than
\* any of theirs, and it lists every absent name of the components' tables.
C7_CompositeConcatenates ==
    applied \in AccumulatingChecks =>
        LET parts == ComponentResults(applied, nc)
        IN  /\ result.kind = "list"
            /\ result.items = Flatten(parts)
            /\ Len(result.items) = SumLen(parts)
            /\ \A i \in 1..Len(parts) : Len(result.items) >= Len(parts[i])
            /\ result.items = ExpectedMissing(nc, RequiredBy(applied))

\* the hydromodel_obs check on the hydromodel_gcm fixture file with an
\* attribute of the first component deleted: the first and the third
\* component both report, the others report nothing
C7_Witness ==
    /\ applied = "missing_hydromodel_obs_mandatory_global_attrs"
    /\ Len(missing_pcic_common_mandatory_global_attrs(nc)) = 1
    /\ Len(missing_model_forcing_observational_mandatory_attrs(nc)) = 7
    /\ Len(missing_calibration_mandatory_attrs(nc)) = 0
    /\ Len(result.items) = 8

\* C8: a file that carries every attribute of a fixture file type's
\* hand-written list passes that type's mandatory composite check, and
\* passes layer_one_missing.
C8_PerfectFilePasses ==
    \A type \in Range(filetypes) :
        (Range(attrs_by_filetype(type)) \subseteq DOMAIN nc.attrs) =>
            /\ applied = mandatory_check(type) => result = ListResult(<<>>)
            /\ applied = "layer_one_missing" => result = BoolResult(FALSE)

\* the downscaled fixture file, which carries driving_tracking_id beyond the
\* names its mandatory check asks for, has been put to that check and passed
C8_Witness ==
    /\ nc = make_perfect_test_file("downscaled")
    /\ applied = mandatory_check("downscaled")
    /\ result = ListResult(<<>>)

\* C9: with any one attribute of the type's hand-written list deleted from
\* the fixture file, the type's mandatory composite check returns exactly
\* that attribute's name.
C9_DeletedAttributeReported ==
    \A type \in Range(filetypes) :
        applied = mandatory_check(type) =>
            \A a \in Range(attrs_by_filetype(type)) :
                nc = without_attrs(make_perfect_test_file(type), {a}) =>
                    result = ListResult(<< a >>)

\* What holds of the code: the deleted attribute is reported, alone, when the
\* check's own tables ask for it; driving_tracking_id and
\* forcing_driving_tracking_id are in the hand-written lists only.
DeletedAttributeReportedIfRequired ==
    \A type \in Range(filetypes) :
        applied = mandatory_check(type) =>
            \A a \in Range(attrs_by_filetype(type)) :
                nc = without_attrs(make_perfect_test_file(type), {a}) =>
                    result = ListResult(IF a \in Range(RequiredBy(applied)) THEN << a >> ELSE <<>>)

----------------------------------------------------------------------------
(* layer_one_missing on files of up to MaxVars variables *)

DimLists ==
    { << "lat", "lon" >>,
      << "time", "lat", "lon" >>,
      << "time", "plev", "lat", "lon" >> }

\* a layer of two cells: no cell, one cell or both cells masked
LayerMasks == { <<FALSE, FALSE>>, <<TRUE, FALSE>>, <<TRUE, TRUE>> }

\* the data of a variable with no, one or two steps along its first axis; the
\* layer at index 0 holds data or is masked throughout
DataChoices ==
    { <<>> }
    \cup {<< first >> : first \in { <<FALSE, FALSE>>, <<TRUE, TRUE>> }}
    \cup {<< first, second >> : first \in { <<FALSE, FALSE>>, <<TRUE, TRUE>> },
                                second \in LayerMasks}

VarNames == << "tasmax", "tasmin", "pr", "tas", "huss" >>

LayerVariables(name) ==
    {[name |-> name, dimensions |-> d, attrs |-> {"units"}, data |-> data] :
        d \in DimLists, data \in DataChoices}

RECURSIVE VariableLists(_)
VariableLists(n) ==
    IF n = 0 THEN {<<>>}
    ELSE {Append(vs, v) : vs \in VariableLists(n - 1), v \in LayerVariables(VarNames[n])}

\* a file of n such variables, read through a library of either kind
LayerFile(vs, m) ==
    [NewDataset EXCEPT !.variables = vs, !.always_mask = m,
                       !.dimensions = << "time", "plev", "lat", "lon" >>]

InitLayer ==
    /\ AtRest
    /\ \E n \in 0..MaxVars : \E vs \in VariableLists(n), m \in BOOLEAN :
          nc = LayerFile(vs, m)

ApplyLayerOneMissing ==
    /\ applied' = "layer_one_missing"
    /\ result' = layer_one_missing(nc)
    /\ UNCHANGED <<nc, required, probed>>
    /\ UNCHANGED driver_vars

SpecLayer == InitLayer /\ [][ApplyLayerOneMissing]_vars

\* the i-th variable has 3 or more dimensions and its slice at index 1 of the
\* first axis is a masked array with every element masked
FullyMaskedLayerOne(f, i) ==
    /\ Len(f.variables[i].dimensions) >= 3
    /\ Len(f.variables[i].data) >= 2
    /\ IsMaskedArray(f, f.variables[i].data[2])
    /\ \A c \in 1..Len(f.variables[i].data[2]) : f.variables[i].data[2][c]

\* C10: layer_one_missing returns true if some variable of 3 or more
\* dimensions has a fully masked slice at index 1, and false otherwise.
C10_LayerOneMissing ==
    applied = "layer_one_missing" =>
        result = BoolResult(\E i \in 1..Len(nc.variables) : FullyMaskedLayerOne(nc, i))

\* What holds of the code: the variables are gone through in file order; the
\* first grid variable that is fully masked at index 1 makes the result true,
\* unless a grid variable before it has no index 1, which raises IndexError.
LayerOneMissingInFileOrder ==
    applied = "layer_one_missing" =>
        LET grid(i) == Len(nc.variables[i].dimensions) >= 3
            short(i) == grid(i) /\ Len(nc.variables[i].data) < 2
            hit(i) == FullyMaskedLayerOne(nc, i)
            stops == {i \in 1..Len(nc.variables) : short(i) \/ hit(i)}
        IN  IF stops = {} THEN result = BoolResult(FALSE)
            ELSE LET first == CHOOSE i \in stops : \A j \in stops : i <= j
                 IN  result = IF hit(first) THEN BoolResult(TRUE) ELSE Raised("IndexError")

----------------------------------------------------------------------------
(* has_masked_dimensions on files whose dimensions have, or lack, a
   coordinate variable *)

DimNames == << "lat", "lon", "time" >>

\* the dimensions of a file, in file order
DimOrders ==
    {s \in SeqsUpTo(Range(DimNames), Len(DimNames)) :
        \A i, j \in 1..Len(s) : s[i] = s[j] => i = j}

\* a coordinate of two values: none, the second, or both masked
CoordData ==
    { << <<FALSE>>, <<FALSE>> >>, << <<FALSE>>, <<TRUE>> >>, << <<TRUE>>, <<TRUE>> >> }

\* a dimension has no variable of its name, or one with such data
CoordChoices ==
    {[present |-> FALSE, data |-> <<>>]}
    \cup {[present |-> TRUE, data |-> d] : d \in CoordData}

\* the coordinate variables, in the order they were written to the file
CoordinateVariables(c) ==
    LET names == SelectSeq(DimNames, LAMBDA d : d \in DOMAIN c /\ c[d].present)
    IN  [i \in 1..Len(names) |->
            [name |-> names[i], dimensions |-> << names[i] >>,
             attrs |-> {"units"}, data |-> c[names[i]].data]]

\* a file of these dimensions, read through a library of either kind
DimFile(s, c, m) ==
    [NewDataset EXCEPT !.dimensions = s, !.variables = CoordinateVariables(c),
                       !.always_mask = m]

InitDims ==
    /\ AtRest
    /\ \E s \in DimOrders : \E c \in [Range(s) -> CoordChoices], m \in BOOLEAN :
          nc = DimFile(s, c, m)

ApplyHasMaskedDimensions ==
    /\ applied' = "has_masked_dimensions"
    /\ result' = has_masked_dimensions(nc)
    /\ UNCHANGED <<nc, required, probed>>
    /\ UNCHANGED driver_vars

SpecDims == InitDims /\ [][ApplyHasMaskedDimensions]_vars

\* the coordinate data of the dimension holds at least one masked value
HasMaskedValue(f, dim) ==
    HasVariable(f, dim) /\ MaskAny(Flatten(Variable(f, dim).data))

\* C11: has_masked_dimensions returns, in the file's dimension order, exactly
\* the dimensions whose coordinate data holds at least one masked value: such
\* a dimension is in the result, a dimension with fully unmasked coordinate
\* data is not, and the result is empty when no dimension is masked.
C11_MaskedDimensions ==
    applied = "has_masked_dimensions" =>
        /\ result = ListResult(SelectSeq(nc.dimensions, LAMBDA dim : HasMaskedValue(nc, dim)))
        /\ \A i \in 1..Len(nc.dimensions) :
              HasMaskedValue(nc, nc.dimensions[i]) <=> nc.dimensions[i] \in Range(result.items)
        /\ (\A i \in 1..Len(nc.dimensions) : ~HasMaskedValue(nc, nc.dimensions[i]))
              => result = ListResult(<<>>)

\* What holds of the code: the test is on the type of the array read.  When
\* every dimension has a coordinate variable, the result lists the dimensions
\* whose data the library hands out as a masked array, in dimension order (all
\* of them under a library that always masks); otherwise the lookup of the
\* missing variable raises KeyError.
MaskedDimensionsByArrayType ==
    applied = "has_masked_dimensions" =>
        IF \A i \in 1..Len(nc.dimensions) : HasVariable(nc, nc.dimensions[i])
        THEN result = ListResult(SelectSeq(nc.dimensions,
                        LAMBDA dim : nc.always_mask \/ HasMaskedValue(nc, dim)))
        ELSE result = Raised("KeyError")

\* a file read through a library that always masks, every dimension with a
\* fully unmasked coordinate: the check reports the dimension all the same
UnmaskedDimensionReported ==
    /\ applied = "has_masked_dimensions"
    /\ nc.always_mask
    /\ nc.dimensions = << "time" >>
    /\ ~HasMaskedValue(nc, "time")
    /\ result = ListResult(<< "time" >>)

----------------------------------------------------------------------------
(* Every registered check on well-formed files: the fixture file, files with
   grid variables of two, one or no time steps, files whose dimensions have
   or lack a coordinate variable *)

\* a file with one grid variable and no coordinate variables
GridFiles ==
    {[NewDataset EXCEPT !.variables = << GridVariable("tasmax", data) >>,
                        !.dimensions = << "time", "lat", "lon" >>,
                        !.always_mask = m] :
        data \in DataChoices, m \in BOOLEAN}

\* a file with the time dimension alone
TimeFiles ==
    {DimFile(<< "time" >>, c, m) : c \in [{"time"} -> CoordChoices], m \in BOOLEAN}

WellFormedFiles ==
    {FileContent(path) : path \in {p \in Paths : Readable(p)}}
    \cup GridFiles \cup TimeFiles

InitRegistered == AtRest /\ nc \in WellFormedFiles

\* result = check(nc), for any check of the registry
ApplyRegisteredCheck ==
    \E name \in Range(check_list) :
        /\ applied' = name
        /\ result' = Check(name, nc)
        /\ UNCHANGED <<nc, required, probed>>
        /\ UNCHANGED driver_vars

SpecRegistered == InitRegistered /\ [][ApplyRegisteredCheck]_vars

\* a variable of 3 or more dimensions without an index 1 on its first axis
HasShortGridVariable(f) ==
    \E i \in 1..Len(f.variables) :
        Len(f.variables[i].dimensions) >= 3 /\ Len(f.variables[i].data) < 2

\* a dimension without a variable of its name
HasBareDimension(f) ==
    \E i \in 1..Len(f.dimensions) : ~HasVariable(f, f.dimensions[i])

\* C12: every registered check, applied to a well-formed file, returns a pass
\* or a fail result and raises no error, whatever the shape of the variables
\* (a first axis of length 1 included) and whatever the dimensions (one
\* without a coordinate variable included).
C12_ChecksNeverRaise ==
    applied \in Range(check_list) =>
        /\ result.kind # "raise"
        /\ Passes(result) \/ Fails(result)

\* What holds of the code: a check raises in two cases only, layer_one_missing
\* reaching a grid variable without an index 1 before any fully masked one,
\* and has_masked_dimensions on a file with a dimension that has no variable
\* of its name; every other application returns a pass or a fail result.
OnlyTwoChecksRaise ==
    applied \in Range(check_list) =>
        IF result.kind = "raise"
        THEN \/ applied = "layer_one_missing" /\ HasShortGridVariable(nc)
                /\ result = Raised("IndexError")
             \/ applied = "has_masked_dimensions" /\ HasBareDimension(nc)
                /\ result = Raised("KeyError")
        ELSE /\ Passes(result) \/ Fails(result)
             /\ applied = "has_masked_dimensions" => ~HasBareDimension(nc)

\* layer_one_missing has raised on a grid variable of a single time step
ShortGridVariableRaises ==
    /\ applied = "layer_one_missing"
    /\ Len(nc.variables) = 1
    /\ Len(nc.variables[1].data) = 1
    /\ result = Raised("IndexError")

\* has_masked_dimensions has raised on a dimension without coordinate variable
BareDimensionRaises ==
    /\ applied = "has_masked_dimensions"
    /\ nc.variables = <<>>
    /\ nc.dimensions = << "time" >>
    /\ result = Raised("KeyError")

\* In the driver, an error raised by a check ends the run: no later check
\* and no later file is evaluated.
CheckErrorStopsBatch ==
    /\ pc = "crashed"
    /\ result.kind = "raise"
    /\ file_idx < Len(args.files)

----------------------------------------------------------------------------
(* cant_generate_climos, one turn of its loop at a time, on files whose two
   properties raise, are falsy or are truthy *)

\* str(e) of the error a property raises
ErrorTexts == {"", "no time variable", "time variable has no units", "missing attribute"}

\* the value of a property; the empty string is falsy
PropertyValues == {"", "time", "tasmax_aClim_BCCAQ.nc", "tasmax_mClim_BCCAQ.nc"}

PropertyOutcomes ==
    {[raises |-> TRUE, value |-> e] : e \in ErrorTexts}
    \cup {[raises |-> FALSE, value |-> v] : v \in PropertyValues}

ClimoFiles ==
    {[NewDataset EXCEPT !.time_var = t, !.cmor_filename = c] :
        t \in PropertyOutcomes, c \in PropertyOutcomes}

InitClimos == AtRest /\ nc \in ClimoFiles

\* one turn of `for name in ...`: the try block with its two returns
ProbeProperty ==
    /\ result = NoResult
    /\ Len(probed) < Len(climo_properties)
    /\ LET name == climo_properties[Len(probed) + 1]
       IN  /\ probed' = Append(probed, name)
           /\ result' = probe(nc, name)
    /\ applied' = "cant_generate_climos"
    /\ UNCHANGED <<nc, required>>
    /\ UNCHANGED driver_vars

\* `return False` after the loop
ReturnFalse ==
    /\ result = NoResult
    /\ Len(probed) = Len(climo_properties)
    /\ result' = BoolResult(FALSE)
    /\ applied' = "cant_generate_climos"
    /\ UNCHANGED <<nc, required, probed>>
    /\ UNCHANGED driver_vars

NextClimos == ProbeProperty \/ ReturnFalse

SpecClimos == InitClimos /\ [][NextClimos]_vars

\* the property raises when evaluated, or evaluates to a falsy value
ProbeFails(f, name) == Property(f, name).raises \/ Property(f, name).value = ""

\* the error's text when evaluation raised, a 'Falsy value' message otherwise
FailureReason(f, name) ==
    IF Property(f, name).raises THEN Property(f, name).value
    ELSE "Falsy value: " \o Property(f, name).value

\* what the check is to return: false when both properties are fine, else the
\* first failing property, time_var before cmor_filename, with its reason
ClimosVerdict(f) ==
    IF ProbeFails(f, "time_var")
    THEN TupleResult("time_var", FailureReason(f, "time_var"))
    ELSE IF ProbeFails(f, "cmor_filename")
    THEN TupleResult("cmor_filename", FailureReason(f, "cmor_filename"))
    ELSE BoolResult(FALSE)

\* C13, at every point of a call: the properties probed so far are time_var,
\* then cmor_filename; none but the last probed has failed; no error has
\* escaped; a returned value is false exactly when both properties evaluated
\* to a truthy value, and else the pair of the first failing property and its
\* reason, that property being the last one probed.
C13_ProbedInOrder ==
    applied = "cant_generate_climos" =>
        /\ IsPrefix(probed, << "time_var", "cmor_filename" >>)
        /\ \A i \in 1..(Len(probed) - 1) : ~ProbeFails(nc, probed[i])
        /\ result.kind # "raise"
        /\ result # NoResult =>
              /\ result = ClimosVerdict(nc)
              /\ result = cant_generate_climos(nc)
              /\ result = BoolResult(FALSE) <=>
                    ~ProbeFails(nc, "time_var") /\ ~ProbeFails(nc, "cmor_filename")
              /\ result = BoolResult(FALSE) => probed = << "time_var", "cmor_filename" >>
              /\ result # BoolResult(FALSE) =>
                    /\ result.kind = "tuple"
                    /\ result.items[1] = probed[Len(probed)]
                    /\ ProbeFails(nc, probed[Len(probed)])
        /\ result = NoResult => ~ProbeFails(nc, probed[Len(probed)])

\* C13: cant_generate_climos probes time_var, then cmor_filename, and stops at
\* the first that fails: it returns false iff both evaluate without error to
\* a truthy value, else the pair (first failing property, reason), the reason
\* being the error's text or a 'Falsy value' message; an error of a probe does
\* not escape, and once a probe has failed no further property is probed.
C13_StopsAtFirstFailure ==
    /\ []C13_ProbedInOrder
    /\ [][(probed # <<>> /\ ProbeFails(nc, probed[Len(probed)])) => probed' = probed]_vars

\* time_var raises and cmor_filename would fail too: the check has returned
\* time_var with the error's text, and cmor_filename was not probed
C13_Witness ==
    /\ applied = "cant_generate_climos"
    /\ nc.time_var = [raises |-> TRUE, value |-> "no time variable"]
    /\ nc.cmor_filename.raises
    /\ probed = << "time_var" >>
    /\ result = TupleResult("time_var", "no time variable")

\* the other outcomes of a call: a falsy cmor_filename after a fine time_var,
\* and both properties fine
ClimosFalsySecond ==
    /\ probed = << "time_var", "cmor_filename" >>
    /\ result = TupleResult("cmor_filename", "Falsy value: ")

ClimosBothFine ==
    /\ probed = << "time_var", "cmor_filename" >>
    /\ result = BoolResult(FALSE)

====
